---- MODULE Spec2Model ----
(***************************************************************************)
(* Model of the Word task-pane add-in src/src/taskpane/taskpane.ts:        *)
(* the selection parser (parseItems, stripPrefix) and the two click flows  *)
(* (insertTemplate, bulletsFromSelection) with their host calls.           *)
(*                                                                         *)
(* A string is a sequence of characters; a character is a one-element      *)
(* TLA+ string, control and non-ASCII characters carry a symbolic name.    *)
(***************************************************************************)
EXTENDS Integers, Sequences, FiniteSets, TLC

VARIABLES
    listeners,   \* buttons whose click listener is registered (Office.onReady)
    loaded,      \* TRUE once the Office.onReady callback has run
    disabled,    \* the disabled property of each control of the task pane
    status,      \* text and severity class of the status element
    doc,         \* host commands applied to the document, in order
    flows,       \* one record per invocation of a click handler
    selectionText, \* argument of the parseItems call under study
    parsed,      \* TRUE once parseItems has returned
    result       \* the list parseItems returned

vars == <<listeners, loaded, disabled, status, doc, flows,
          selectionText, parsed, result>>

(***************************************************************************)
(* Bounds                                                                  *)
(***************************************************************************)
MaxLen == 4      \* longest enumerated selection text
MaxFlows == 2    \* click-handler invocations in one behaviour

(***************************************************************************)
(* Characters                                                              *)
(***************************************************************************)
LF == "<LF>"
CR == "<CR>"
LS == "<U+2028>"
PS == "<U+2029>"
TAB == "<TAB>"
BS == "\\"
COMMA == ","
BULLET == "<U+2022>"

\* white space of String.prototype.trim and of \s in a regular expression
WhiteSpace == {" ", TAB, LF, CR, LS, PS}

\* \d in a regular expression
Digits == {"0", "1", "2", "3", "4", "5", "6", "7", "8", "9"}

(***************************************************************************)
(* String primitives of the JavaScript runtime                             *)
(***************************************************************************)
Drop(s, n) == SubSeq(s, n + 1, Len(s))

Includes(s, c) == \E i \in 1..Len(s) : s[i] = c

RECURSIVE TrimStart(_)
TrimStart(s) ==
    IF s # <<>> /\ s[1] \in WhiteSpace THEN TrimStart(Tail(s)) ELSE s

RECURSIVE TrimEnd(_)
TrimEnd(s) ==
    IF s # <<>> /\ s[Len(s)] \in WhiteSpace
    THEN TrimEnd(SubSeq(s, 1, Len(s) - 1))
    ELSE s

Trim(s) == TrimEnd(TrimStart(s))

\* s.replace(/ab/g, to) for a two-character pattern ab
RECURSIVE ReplaceAll2(_, _, _, _)
ReplaceAll2(s, a, b, to) ==
    IF Len(s) = 0 THEN <<>>
    ELSE IF Len(s) >= 2 /\ s[1] = a /\ s[2] = b
         THEN <<to>> \o ReplaceAll2(Drop(s, 2), a, b, to)
         ELSE <<s[1]>> \o ReplaceAll2(Tail(s), a, b, to)

\* s.replace(/a/g, to) for a one-character pattern a
ReplaceAll1(s, a, to) == [i \in 1..Len(s) |-> IF s[i] = a THEN to ELSE s[i]]

\* s.split(sep) where sep matches exactly the characters of seps:
\* every occurrence separates, so k separators give k + 1 segments
RECURSIVE Split(_, _)
Split(s, seps) ==
    IF \A i \in 1..Len(s) : s[i] \notin seps THEN <<s>>
    ELSE LET k == CHOOSE i \in 1..Len(s) :
                     /\ s[i] \in seps
                     /\ \A j \in 1..(i - 1) : s[j] \notin seps
         IN <<SubSeq(s, 1, k - 1)>> \o Split(Drop(s, k), seps)

Map(f(_), q) == [i \in 1..Len(q) |-> f(q[i])]

\* q.filter(Boolean) on a list of strings: the empty string is falsy
RECURSIVE FilterBoolean(_)
FilterBoolean(q) ==
    IF q = <<>> THEN <<>>
    ELSE IF Head(q) = <<>> THEN FilterBoolean(Tail(q))
         ELSE <<Head(q)>> \o FilterBoolean(Tail(q))

(***************************************************************************)
(* stripPrefix: the pattern ^(G)\s* with the g flag is replaced by "" and  *)
(* the outcome trimmed, G being one of: U+2022, -, *, (digits), digits     *)
(* followed by . or ).  Anchored at the start, it matches at most once.    *)
(***************************************************************************)
\* length of the longest run of digits at the start of s
RECURSIVE DigitRun(_)
DigitRun(s) ==
    IF s # <<>> /\ s[1] \in Digits THEN 1 + DigitRun(Tail(s)) ELSE 0

\* length of the text the group G matches at the start of s, 0 when it
\* does not match
GroupLen(s) ==
    IF s = <<>> THEN 0
    ELSE IF s[1] \in {BULLET, "-", "*"} THEN 1
    ELSE IF s[1] = "("
         THEN LET d == DigitRun(Tail(s))
              IN IF d >= 1 /\ Len(s) >= d + 2 /\ s[d + 2] = ")"
                 THEN d + 2 ELSE 0
    ELSE LET d == DigitRun(s)
         IN IF d >= 1 /\ Len(s) >= d + 1 /\ s[d + 1] \in {".", ")"}
            THEN d + 1 ELSE 0

\* the same pattern removed as often as it matches
RECURSIVE stripPrefix_Repeated(_)
stripPrefix_Repeated(s) ==
    IF GroupLen(s) = 0 THEN Trim(s)
    ELSE stripPrefix_Repeated(TrimStart(Drop(s, GroupLen(s))))

stripPrefix(s) ==
    IF GroupLen(s) = 0 THEN Trim(s)
    ELSE Trim(TrimStart(Drop(s, GroupLen(s))))

(***************************************************************************)
(* parseItems                                                              *)
(***************************************************************************)
\* lines 61-62: literal backslash-r, then literal backslash-n
NormalizeLiteral(t) == ReplaceAll2(ReplaceAll2(t, BS, "r", LF), BS, "n", LF)

\* lines 64-69: CR LF, CR, U+2028, U+2029
NormalizeBreaks(t) ==
    ReplaceAll1(ReplaceAll1(ReplaceAll1(ReplaceAll2(t, CR, LF, LF),
                                        CR, LF), LS, LF), PS, LF)

Normalize(t) == NormalizeBreaks(NormalizeLiteral(t))

\* the delimiter test without its line-break condition
UseDelimiters_IgnoringBreaks(t) == Includes(t, BS) \/ Includes(t, COMMA)

\* line 72
UseDelimiters(t) ==
    ~Includes(t, LF) /\ (Includes(t, BS) \/ Includes(t, COMMA))

parseItems(text) ==
    IF text = <<>> THEN <<>>
    ELSE LET t0 == Trim(text) IN
         IF t0 = <<>> THEN <<>>
         ELSE LET t == Normalize(t0) IN
              IF UseDelimiters(t)
              THEN Map(stripPrefix,
                       FilterBoolean(Map(Trim, Split(t, {BS, COMMA}))))
              ELSE Map(stripPrefix,
                       FilterBoolean(Map(Trim, Split(t, {LF}))))

(***************************************************************************)
(* The task pane                                                           *)
(***************************************************************************)
\* elements of the task pane that document.getElementById finds
Elements == {"insertTemplate", "bulletsFromSelection", "titleInput", "status"}

Buttons == {"insertTemplate", "bulletsFromSelection"}

Hosts == {"Word", "Excel"}

\* values the user may have typed into the title input
TitleValues == {<<>>, <<" ">>, <<"Q", "3">>}

\* texts the host may return for the current selection
SelectionTexts ==
    { <<>>,
      <<" ">>,
      <<"-">>,
      <<"a", ",", " ", "b">>,
      <<"1", ")", "x", LF, "-", " ", "y", CR, LF, "z">> }

\* values a rejected host call may throw: null/undefined, an object without
\* a message, an Error with a message
Errors ==
    { [isNull |-> TRUE,  message |-> ""],
      [isNull |-> FALSE, message |-> ""],
      [isNull |-> FALSE, message |-> "GeneralException"] }

NoError == [isNull |-> TRUE, message |-> "<none>"]

DefaultTitle == <<"McCarren Office Challenge">>

\* lines 20-24
getTitle(value) == IF Trim(value) = <<>> THEN DefaultTitle ELSE Trim(value)

\* a setBusy that touches the title input only
setBusy_TitleOnly(d, isBusy) ==
    IF "titleInput" \in DOMAIN d THEN [d EXCEPT !["titleInput"] = isBusy] ELSE d

\* a setBusy that can only disable
setBusy_NeverEnables(d, isBusy) ==
    [e \in DOMAIN d |-> d[e] \/ isBusy]

\* lines 26-34
setBusy(d, isBusy) ==
    LET d1 == IF "insertTemplate" \in DOMAIN d
              THEN [d EXCEPT !["insertTemplate"] = isBusy] ELSE d
        d2 == IF "bulletsFromSelection" \in DOMAIN d1
              THEN [d1 EXCEPT !["bulletsFromSelection"] = isBusy] ELSE d1
    IN IF "titleInput" \in DOMAIN d2
       THEN [d2 EXCEPT !["titleInput"] = isBusy] ELSE d2

\* lines 36-43
setStatus(st, msg, kind) ==
    IF "status" \notin Elements THEN st ELSE [msg |-> msg, kind |-> kind]

\* err?.message || "Check console." ignoring the message
ErrText_AlwaysFallback(err) == "Check console."

\* err?.message || "Check console."  (lines 144, 183)
ErrText(err) ==
    IF err.isNull THEN "Check console."
    ELSE IF err.message = "" THEN "Check console."
    ELSE err.message

(***************************************************************************)
(* Host commands.  A command that changes the document is queued by the    *)
(* proxy object and applied by the next successful context.sync().         *)
(***************************************************************************)
InsertText(text, loc) == <<"insertText", text, loc>>
InsertParagraph(target, text, loc) == <<"insertParagraph", target, text, loc>>
StartNewList == <<"startNewList">>
SetProperty(name, value) == <<"set", name, value>>

Mutating == {"insertText", "insertParagraph", "startNewList", "set"}

\* lines 100-136
TemplateCommands(title) ==
    << InsertParagraph("body", <<>>, "end"),
       InsertParagraph("body", title, "end"),
       SetProperty("styleBuiltIn", "heading1"),
       InsertParagraph("body", <<"Generated: ", "<now>">>, "end"),
       SetProperty("font.italic", "true"),
       InsertParagraph("body", <<"Summary">>, "end"),
       SetProperty("styleBuiltIn", "heading2"),
       InsertParagraph("body", <<"Purpose: (write 1 sentence)">>, "end"),
       InsertParagraph("body", <<"Outcome: (write 1 sentence)">>, "end"),
       InsertParagraph("body", <<"Next Step: (write 1 sentence)">>, "end"),
       InsertParagraph("body", <<"Key Points">>, "end"),
       SetProperty("styleBuiltIn", "heading2"),
       InsertParagraph("body", <<"What was done">>, "end"),
       StartNewList,
       InsertParagraph("list", <<"Why it matters">>, "end"),
       InsertParagraph("list", <<"What happens next">>, "end"),
       InsertParagraph("body", <<"Notes">>, "end"),
       SetProperty("styleBuiltIn", "heading2"),
       InsertParagraph("body", <<"(Add any details here.)">>, "end"),
       SetProperty("font.color", "#2b579a") >>

\* lines 168-171
FirstItemCommands(items) ==
    << InsertText(<<>>, "replace"),
       InsertParagraph("range", items[1], "after"),
       StartNewList >>

\* the replacement of the selection issued before the emptiness test
BatchAfterParse_ReplaceFirst(items) ==
    IF Len(items) = 0 THEN <<InsertText(<<>>, "replace")>>
    ELSE FirstItemCommands(items)

\* commands issued between the parse and the loop: none when the list is
\* empty (lines 162-165), else those of lines 168-171
BatchAfterParse(items) ==
    IF Len(items) = 0 THEN <<>> ELSE FirstItemCommands(items)

\* line 163
NoItemsMessage ==
    <<"Select text first (one item per line, or apple\\banana\\cherry).">>

\* the loop body reading the list from its far end
ListItemCommand_Reversed(items, i) ==
    InsertParagraph("list", items[Len(items) + 1 - i], "end")

\* line 174, i being the loop index of the code (0-based)
ListItemCommand(items, i) == InsertParagraph("list", items[i + 1], "end")

(***************************************************************************)
(* Click handlers.  flows[f] is the f-th invocation; pc is its position:   *)
(*   "run"      Word.run was called, the batch function has not started    *)
(*   "syncRead" awaiting context.sync() of line 158                        *)
(*   "loop"     in the for loop of lines 173-175                           *)
(*   "syncWrite" awaiting context.sync() of line 138 or 177                *)
(*   "returned" the batch function returned, Word.run is resolving         *)
(*   "thrown"   a host call rejected, Word.run is rejecting                *)
(*   "done"     the finally block has run                                  *)
(***************************************************************************)
NewFlow(kind, title) ==
    [kind |-> kind, pc |-> "run", title |-> title, text |-> <<>>,
     items |-> <<>>, i |-> 0, queue |-> <<>>, failedAt |-> "none",
     err |-> NoError, doc0 |-> doc,
     trace |-> <<"setBusy(true)", "setStatus(info)", "Word.run">>]

AllDisabled == \A e \in DOMAIN disabled : disabled[e]
AllEnabled == \A e \in DOMAIN disabled : ~disabled[e]

InProgress(f) == flows[f].pc # "done"

\* Office.onReady callback, lines 5-18
OnReady ==
    /\ ~loaded
    /\ loaded' = TRUE
    /\ \E host \in Hosts :
          IF host # "Word"
          THEN UNCHANGED <<listeners, status>>
          ELSE /\ listeners' = Buttons \cap Elements
               /\ status' = setStatus(status, <<"Ready.">>, "success")
    /\ UNCHANGED <<disabled, doc, flows, selectionText, parsed, result>>

\* the browser delivers a click to a button that has a listener and is
\* not disabled
Clickable(b) == b \in listeners /\ ~disabled[b]

\* insertTemplate up to its first await, lines 93-99
ClickInsertTemplate ==
    /\ Clickable("insertTemplate")
    /\ Len(flows) < MaxFlows
    /\ \E value \in TitleValues :
          flows' = Append(flows, NewFlow("insertTemplate", getTitle(value)))
    /\ disabled' = setBusy(disabled, TRUE)
    /\ status' = setStatus(status, <<"Inserting template...">>, "info")
    /\ UNCHANGED <<listeners, loaded, doc, selectionText, parsed, result>>

\* bulletsFromSelection up to its first await, lines 150-155
ClickBulletsFromSelection ==
    /\ Clickable("bulletsFromSelection")
    /\ Len(flows) < MaxFlows
    /\ flows' = Append(flows, NewFlow("bulletsFromSelection", <<>>))
    /\ disabled' = setBusy(disabled, TRUE)
    /\ status' = setStatus(status, <<"Creating bullets...">>, "info")
    /\ UNCHANGED <<listeners, loaded, doc, selectionText, parsed, result>>

\* batch function of insertTemplate up to its await, lines 99-138
TemplateBatch(f) ==
    /\ flows[f].kind = "insertTemplate" /\ flows[f].pc = "run"
    /\ flows' = [flows EXCEPT
          ![f].queue = TemplateCommands(flows[f].title),
          ![f].trace = @ \o Map(Head, TemplateCommands(flows[f].title))
                         \o <<"sync">>,
          ![f].pc = "syncWrite"]
    /\ UNCHANGED <<listeners, loaded, disabled, status, doc,
                   selectionText, parsed, result>>

\* batch function of bulletsFromSelection up to its first await,
\* lines 155-158
BulletsBatch(f) ==
    /\ flows[f].kind = "bulletsFromSelection" /\ flows[f].pc = "run"
    /\ flows' = [flows EXCEPT
          ![f].trace = @ \o <<"getSelection", "load", "sync">>,
          ![f].pc = "syncRead"]
    /\ UNCHANGED <<listeners, loaded, disabled, status, doc,
                   selectionText, parsed, result>>

\* the first sync rejects
ReadFails(f) ==
    /\ flows[f].pc = "syncRead"
    /\ \E e \in Errors :
          flows' = [flows EXCEPT ![f].err = e, ![f].failedAt = "read",
                                 ![f].pc = "thrown"]
    /\ UNCHANGED <<listeners, loaded, disabled, status, doc,
                   selectionText, parsed, result>>

\* the first sync resolves: lines 160-171
ReadDone(f) ==
    /\ flows[f].pc = "syncRead"
    /\ \E text \in SelectionTexts :
          LET items == parseItems(text) IN
          /\ flows' = [flows EXCEPT
                ![f].text = text, ![f].items = items,
                ![f].queue = BatchAfterParse(items),
                ![f].trace = @ \o <<"synced", "parseItems">>
                               \o (IF Len(items) = 0
                                   THEN <<"setStatus(error)">> ELSE <<>>)
                               \o Map(Head, BatchAfterParse(items)),
                ![f].i = 1,
                ![f].pc = IF Len(items) = 0 THEN "returned" ELSE "loop"]
          /\ status' = IF Len(items) = 0
                       THEN setStatus(status, NoItemsMessage, "error")
                       ELSE status
    /\ UNCHANGED <<listeners, loaded, disabled, doc,
                   selectionText, parsed, result>>

\* one test of the loop condition: an iteration, or the exit to line 177
LoopStep(f) ==
    /\ flows[f].pc = "loop"
    /\ IF flows[f].i < Len(flows[f].items)
       THEN flows' = [flows EXCEPT
               ![f].queue = Append(@, ListItemCommand(flows[f].items, flows[f].i)),
               ![f].trace = Append(@, "insertParagraph"),
               ![f].i = @ + 1]
       ELSE flows' = [flows EXCEPT
               ![f].trace = Append(@, "sync"),
               ![f].pc = "syncWrite"]
    /\ UNCHANGED <<listeners, loaded, disabled, status, doc,
                   selectionText, parsed, result>>

\* the sync of line 138 or 177 rejects: nothing of the batch is applied
WriteFails(f) ==
    /\ flows[f].pc = "syncWrite"
    /\ \E e \in Errors :
          flows' = [flows EXCEPT ![f].err = e, ![f].failedAt = "write",
                                 ![f].pc = "thrown"]
    /\ UNCHANGED <<listeners, loaded, disabled, status, doc,
                   selectionText, parsed, result>>

\* the sync of line 138 or 177 resolves: the host applies the batch
WriteDone(f) ==
    /\ flows[f].pc = "syncWrite"
    /\ doc' = doc \o flows[f].queue
    /\ flows' = [flows EXCEPT ![f].queue = <<>>, ![f].pc = "returned",
                              ![f].trace = Append(@, "synced")]
    /\ UNCHANGED <<listeners, loaded, disabled, status,
                   selectionText, parsed, result>>

\* Word.run resolves: lines 141, 145-147 and 180, 184-186
RunResolves(f) ==
    /\ flows[f].pc = "returned"
    /\ status' = setStatus(status,
          IF flows[f].kind = "insertTemplate"
          THEN <<"Template inserted.">> ELSE <<"Bullets created.">>,
          "success")
    /\ disabled' = setBusy(disabled, FALSE)
    /\ flows' = [flows EXCEPT
          ![f].trace = @ \o <<"setStatus(success)", "setBusy(false)">>,
          ![f].pc = "done"]
    /\ UNCHANGED <<listeners, loaded, doc, selectionText, parsed, result>>

\* Word.run rejects: lines 142-147 and 181-186
RunRejects(f) ==
    /\ flows[f].pc = "thrown"
    /\ status' = setStatus(status,
          << IF flows[f].kind = "insertTemplate"
             THEN "Error inserting template: " ELSE "Error creating bullets: ",
             ErrText(flows[f].err) >>,
          "error")
    /\ disabled' = setBusy(disabled, FALSE)
    /\ flows' = [flows EXCEPT
          ![f].trace = @ \o <<"console.error", "setStatus(error)",
                              "setBusy(false)">>,
          ![f].pc = "done"]
    /\ UNCHANGED <<listeners, loaded, doc, selectionText, parsed, result>>

\* everything but the user's clicks
Continue ==
    \E f \in 1..Len(flows) :
        \/ TemplateBatch(f)
        \/ BulletsBatch(f)
        \/ ReadFails(f)
        \/ ReadDone(f)
        \/ LoopStep(f)
        \/ WriteFails(f)
        \/ WriteDone(f)
        \/ RunResolves(f)
        \/ RunRejects(f)

Init ==
    /\ listeners = {}
    /\ loaded = FALSE
    /\ disabled = [e \in Elements \cap {"insertTemplate", "bulletsFromSelection",
                                        "titleInput"} |-> FALSE]
    /\ status = [msg |-> <<>>, kind |-> "none"]
    /\ doc = <<>>
    /\ flows = <<>>
    /\ selectionText = <<>>
    /\ parsed = FALSE
    /\ result = <<>>

Next ==
    \/ OnReady
    \/ ClickInsertTemplate
    \/ ClickBulletsFromSelection
    \/ \E f \in 1..Len(flows) : TemplateBatch(f)
    \/ \E f \in 1..Len(flows) : BulletsBatch(f)
    \/ \E f \in 1..Len(flows) : ReadFails(f)
    \/ \E f \in 1..Len(flows) : ReadDone(f)
    \/ \E f \in 1..Len(flows) : LoopStep(f)
    \/ \E f \in 1..Len(flows) : WriteFails(f)
    \/ \E f \in 1..Len(flows) : WriteDone(f)
    \/ \E f \in 1..Len(flows) : RunResolves(f)
    \/ \E f \in 1..Len(flows) : RunRejects(f)

Spec == Init /\ [][Next]_vars

\* the event loop runs every continuation that is ready, and the host
\* answers every call; the user need not click
FairSpec == Spec /\ WF_vars(Continue)

(***************************************************************************)
(* parseItems on its own: the argument is drawn from the enumerated texts  *)
(***************************************************************************)
BreakAlphabet == {"a", "n", "r", COMMA, BS, LF, CR, LS}

PrefixAlphabet == {"a", "-", "*", "1", ".", ")", "(", " "}

StringsUpTo(alphabet, n) == UNION {[1..k -> alphabet] : k \in 0..n}

\* the worked examples of the documentation and a few longer texts
Examples ==
    { <<"a", "p", BS, "b", "a", BS, "c", "h">>,
      <<"a", "p", COMMA, " ", "b", "a", COMMA, " ", "c", "h">>,
      <<"a", COMMA, " ", "b", LF, "c", COMMA, " ", "d">>,
      <<"1", ")", " ", "F", LF, "2", ")", " ", "S", LF, "-", " ", "T">>,
      <<LF, LF, "a", "p", LF, LF>>,
      <<"a", BS, "n", "b", PS, BULLET, TAB, "c">>,
      <<"(", "1", "2", ")", " ", "a", CR, LF, "3", "4", ".", "5">>,
      <<"a", "p", BS, "r", "a", "s", "p">> }

ParseInputs ==
    StringsUpTo(BreakAlphabet, MaxLen) \cup StringsUpTo(PrefixAlphabet, MaxLen)
        \cup Examples

ParseInit ==
    /\ selectionText \in ParseInputs
    /\ parsed = FALSE
    /\ result = <<>>
    /\ listeners = {}
    /\ loaded = FALSE
    /\ disabled = [e \in Elements \cap {"insertTemplate", "bulletsFromSelection",
                                        "titleInput"} |-> FALSE]
    /\ status = [msg |-> <<>>, kind |-> "none"]
    /\ doc = <<>>
    /\ flows = <<>>

\* one call of parseItems, lines 55-86
CallParseItems ==
    /\ ~parsed
    /\ parsed' = TRUE
    /\ result' = parseItems(selectionText)
    /\ UNCHANGED <<selectionText, listeners, loaded, disabled, status, doc,
                   flows>>

ParseNext == CallParseItems

ParseSpec == ParseInit /\ [][ParseNext]_vars

(***************************************************************************)
(* Properties                                                              *)
(***************************************************************************)
IsPrefix(p, q) == Len(p) <= Len(q) /\ p = SubSeq(q, 1, Len(p))

Count(s, c) == Cardinality({i \in 1..Len(s) : s[i] = c})

RECURSIVE Flatten(_)
Flatten(q) == IF q = <<>> THEN <<>> ELSE Head(q) \o Flatten(Tail(q))

IsBullets(f) == flows[f].kind = "bulletsFromSelection"
IsLast(f) == f = Len(flows)
Called(f, name) == \E k \in 1..Len(flows[f].trace) : flows[f].trace[k] = name
NoMutatingCall(f) ==
    \A k \in 1..Len(flows[f].trace) : flows[f].trace[k] \notin Mutating
StatusCalls(f) ==
    Cardinality({k \in 1..Len(flows[f].trace) :
        flows[f].trace[k] \in {"setStatus(error)", "setStatus(success)"}})

\* C1: every element of the list parseItems returns is non-empty after
\* trimming, for every input.
C1_ItemsNonEmpty ==
    parsed => \A i \in 1..Len(result) : Trim(result[i]) # <<>>

\* C2: an invocation of bulletsFromSelection ends with exactly one terminal
\* status: the error "no items found" message when the parsed list is empty,
\* the success acknowledgment when items were inserted, an error when a host
\* call failed; never success when the list was empty.
C2_OneTerminalStatus ==
    \A f \in 1..Len(flows) :
        (IsBullets(f) /\ IsLast(f) /\ flows[f].pc = "done") =>
            /\ StatusCalls(f) = 1
            /\ flows[f].failedAt # "none" => status.kind = "error"
            /\ (flows[f].failedAt = "none" /\ flows[f].items = <<>>) =>
                   status = [msg |-> NoItemsMessage, kind |-> "error"]
            /\ (flows[f].failedAt = "none" /\ flows[f].items # <<>>) =>
                   status = [msg |-> <<"Bullets created.">>, kind |-> "success"]

\* C3: when the parsed list is empty, bulletsFromSelection issues no
\* document-mutating host call and leaves the document as it found it.
C3_EmptyListNoMutation ==
    \A f \in 1..Len(flows) :
        (IsBullets(f) /\ Called(f, "parseItems") /\ flows[f].items = <<>>) =>
            /\ NoMutatingCall(f)
            /\ flows[f].queue = <<>>
            /\ IsLast(f) => doc = flows[f].doc0

C3_Witness ==
    \E f \in 1..Len(flows) :
        /\ IsBullets(f) /\ Called(f, "parseItems") /\ flows[f].items = <<>>
        /\ flows[f].pc = "done" /\ flows[f].doc0 # <<>>

\* C4: every flow has the controls disabled while it runs, and on every
\* exit path it ends with all of them enabled again; every flow that has
\* started does end.
C4_BusyRestored ==
    \A f \in 1..MaxFlows :
        /\ []((f <= Len(flows) /\ InProgress(f)) => AllDisabled)
        /\ []((f <= Len(flows) /\ \A g \in 1..Len(flows) : ~InProgress(g))
                 => AllEnabled)
        /\ (f <= Len(flows))
               ~> (f <= Len(flows) /\ flows[f].pc = "done" /\ AllEnabled)

C4_Witness ==
    /\ flows # <<>>
    /\ \A f \in 1..Len(flows) : flows[f].pc = "done"
    /\ \E f \in 1..Len(flows) : flows[f].failedAt = "write"
    /\ \E f \in 1..Len(flows) : flows[f].failedAt = "read"
    /\ AllEnabled

\* what a status message shows of a thrown value: its message, or the
\* fallback text when it has none
Description(err) ==
    IF ~err.isNull /\ err.message # "" THEN err.message ELSE "Check console."

ReadFailureReported(f) ==
    /\ ~Called(f, "parseItems")
    /\ NoMutatingCall(f)
    /\ IsLast(f) => doc = flows[f].doc0
    /\ (IsLast(f) /\ flows[f].pc = "done") =>
           status = [msg |-> <<"Error creating bullets: ",
                               Description(flows[f].err)>>,
                     kind |-> "error"]

ExpectedCommands(items) ==
    << InsertText(<<>>, "replace"),
       InsertParagraph("range", items[1], "after"),
       StartNewList >>
    \o [k \in 1..(Len(items) - 1) |-> InsertParagraph("list", items[k + 1], "end")]

ExpectedTrace(items) ==
    << "setBusy(true)", "setStatus(info)", "Word.run", "getSelection", "load",
       "sync", "synced", "parseItems", "insertText", "insertParagraph",
       "startNewList" >>
    \o [k \in 1..(Len(items) - 1) |-> "insertParagraph"]
    \o << "sync", "synced", "setStatus(success)", "setBusy(false)" >>

\* C6: with a non-empty list the read completes before the parse, the parse
\* before any write; the first item is inserted as a paragraph, a list is
\* started from it, the remaining items follow in list order, each once;
\* success is reported only after the write has completed.
C6_CallOrder ==
    \A f \in 1..Len(flows) :
        (IsBullets(f) /\ flows[f].items # <<>>) =>
            /\ flows[f].pc \in {"loop", "syncWrite", "thrown"} =>
                   IsPrefix(flows[f].queue, ExpectedCommands(flows[f].items))
            /\ flows[f].pc = "syncWrite" =>
                   flows[f].queue = ExpectedCommands(flows[f].items)
            /\ (IsLast(f) /\ flows[f].pc \in {"returned", "done"}
                          /\ flows[f].failedAt = "none") =>
                   doc = flows[f].doc0 \o ExpectedCommands(flows[f].items)
            /\ flows[f].failedAt = "none" =>
                   IsPrefix(flows[f].trace, ExpectedTrace(flows[f].items))
            /\ (flows[f].pc = "done" /\ flows[f].failedAt = "none") =>
                   flows[f].trace = ExpectedTrace(flows[f].items)

C6_Witness ==
    \E f \in 1..Len(flows) :
        /\ IsBullets(f) /\ Len(flows[f].items) >= 3
        /\ flows[f].pc = "done" /\ flows[f].failedAt = "none"
        /\ status.kind = "success"

PrecedenceExample == <<"a", COMMA, " ", "b", LF, "c", COMMA, " ", "d">>

\* C7: when the trimmed, normalized input contains a line break it is split
\* on line breaks only: there are at most as many items as lines, no item
\* holds a line break, and no comma or backslash was consumed as a
\* separator; "a, b<LF>c, d" gives the two items "a, b" and "c, d".
C7_LineBreakPrecedence ==
    LET t == Normalize(Trim(selectionText)) IN
    (parsed /\ Includes(t, LF)) =>
        /\ Len(result) <= Count(t, LF) + 1
        /\ \A i \in 1..Len(result) : ~Includes(result[i], LF)
        /\ Count(Flatten(result), COMMA) = Count(t, COMMA)
        /\ Count(Flatten(result), BS) = Count(t, BS)
        /\ selectionText = PrecedenceExample =>
               result = << <<"a", COMMA, " ", "b">>, <<"c", COMMA, " ", "d">> >>

C7_Witness ==
    /\ parsed
    /\ selectionText = <<"a", COMMA, CR, BS>>
    /\ result = << <<"a", COMMA>>, <<BS>> >>

\* an item as the user means it: non-empty, trimmed, without a bullet or
\* numbering prefix and without a delimiter or a line break inside
CleanItem(x) ==
    /\ x # <<>>
    /\ x[1] \notin WhiteSpace /\ x[Len(x)] \notin WhiteSpace
    /\ x[1] \notin ({BULLET, "-", "*", "("} \cup Digits)
    /\ \A i \in 1..Len(x) : x[i] \notin {BS, COMMA, LF, CR, LS, PS}

JoinedBy(text, sep) ==
    /\ Includes(text, sep)
    /\ \A i \in 1..Len(Split(text, {sep})) : CleanItem(Split(text, {sep})[i])

\* C8: a single-line text whose items are joined by backslashes, or by
\* commas, parses to exactly those items in the same order, for every item
\* including those whose first letter is r or n.
C8_DelimiterRoundTrip ==
    /\ (parsed /\ JoinedBy(selectionText, BS)) =>
           result = Split(selectionText, {BS})
    /\ (parsed /\ JoinedBy(selectionText, COMMA)) =>
           result = Split(selectionText, {COMMA})

\* the segments the input is split into, trimmed, the empty ones dropped
Segments(text) ==
    LET t == Normalize(Trim(text))
        seps == IF Includes(t, LF) THEN {LF} ELSE {BS, COMMA, LF}
    IN FilterBoolean(Map(Trim, Split(t, seps)))

\* p is one bullet or numbering prefix
IsOnePrefix(p) ==
    \/ p \in {<<BULLET>>, <<"-">>, <<"*">>}
    \/ /\ Len(p) >= 3 /\ p[1] = "(" /\ p[Len(p)] = ")"
       /\ \A i \in 2..(Len(p) - 1) : p[i] \in Digits
    \/ /\ Len(p) >= 2 /\ p[Len(p)] \in {".", ")"}
       /\ \A i \in 1..(Len(p) - 1) : p[i] \in Digits

HasPrefix(s) == \E k \in 1..Len(s) : IsOnePrefix(SubSeq(s, 1, k))

\* r is s without at most one leading prefix and the white space after it
OneStrip(s, r) ==
    /\ r = <<>> \/ (r[1] \notin WhiteSpace /\ r[Len(r)] \notin WhiteSpace)
    /\ \E k \in 0..Len(s) :
          /\ r = Drop(s, k)
          /\ k = 0 \/ IsOnePrefix(TrimEnd(SubSeq(s, 1, k)))
    /\ HasPrefix(s) <=> r # s

PrefixExample ==
    <<"1", ")", " ", "F", LF, "2", ")", " ", "S", LF, "-", " ", "T">>

\* C9: each item is its segment without at most one leading bullet or
\* numbering prefix and the white space after it; a second prefix and
\* prefix-like text inside the segment stay, a segment without prefix is
\* returned as it is, and no item has leading or trailing white space;
\* "1) F<LF>2) S<LF>- T" gives F, S, T.
C9_OnePrefixStripped ==
    parsed =>
        /\ Len(result) = Len(Segments(selectionText))
        /\ \A i \in 1..Len(result) :
               OneStrip(Segments(selectionText)[i], result[i])
        /\ selectionText = PrefixExample => result = << <<"F">>, <<"S">>, <<"T">> >>

C9_Witness ==
    /\ parsed
    /\ selectionText = <<"-", " ", "1", ".">>
    /\ result = << <<"1", ".">> >>

\* C10: while a flow is in progress both buttons and the title input are
\* disabled and no click can be delivered, so at most one flow, hence at
\* most one Word.run, is in progress at any time.
C10_OneFlowAtATime ==
    /\ Cardinality({f \in 1..Len(flows) : InProgress(f)}) <= 1
    /\ \A f \in 1..Len(flows) :
           InProgress(f) =>
               /\ AllDisabled
               /\ DOMAIN disabled = Elements \ {"status"}
               /\ \A b \in Buttons : ~Clickable(b)

C10_Witness ==
    /\ Len(flows) >= 2
    /\ flows[1].pc = "done"
    /\ flows[2].pc = "syncWrite"
    /\ flows[1].kind # flows[2].kind

====
